---------------------------- MODULE Spec2Model ----------------------------
(***************************************************************************)
(* A model of handflip, a forward HTTP proxy that reaches its upstreams    *)
(* directly or through a SOCKS5 proxy.                                     *)
(*                                                                         *)
(*   handflip-core/src/http.rs           HttpProxy, Transport, relay       *)
(*   handflip-core/src/socks5/client.rs  SOCKS5 client: proxy, handshake,  *)
(*                                       send, receive                     *)
(*   handflip-core/src/error.rs          the error classes                 *)
(*                                                                         *)
(* The specifications of the module:                                       *)
(*   Spec       the listener of HttpProxy::bind with one connection, its   *)
(*              handler given every request (FairSpec adds the polling of  *)
(*              the handler by the executor)                               *)
(*   BindSpec   the listener with MaxConns concurrent connections          *)
(*   SocksSpec  one call of socks5::client::proxy, step by step            *)
(*   HostSpec   host_port_from_req as a function of the request URL        *)
(***************************************************************************)
EXTENDS Integers, Sequences, FiniteSets, TLC

VARIABLES
    \* ---- HttpProxy::bind and the handlers (Spec) ----
    transport,        \* HttpProxy.transport: "Direct" or "Socks5"
    debugAssertions,  \* whether the build keeps debug_assert! (debug profile)
    process,          \* "running", or "panicked" once a panic unwound bind
    acceptErrs,       \* accept errors logged by the listener so far
    pc,               \* per connection: where its handler is
    req,              \* per connection: the request the client sent
    resp,             \* per connection: the response decoded from upstream
    clientOut,        \* per connection: what was written to the client stream
    upOut,            \* per connection: what was written to the upstream stream
    upstream,         \* per connection: "none", "connected", "failed", "closed"
    client,           \* per connection: "none", "open", "closed" (proxy side)
    clientSrc,        \* per connection: the client's sending side
    upSrc,            \* per connection: the upstream's sending side
    relay,            \* per connection: "none", "running", "Left", "Right"
    result,           \* per connection: the value handle() returned
    attempts,         \* per connection: the calls of Transport::connect, each
                      \* with the TCP connection it made
    \* ---- socks5::client::proxy (SocksSpec) ----
    spc,              \* where proxy() is
    senv,             \* its environment: resolution, reachability, server bytes
    sconn,            \* the connection to the SOCKS5 proxy
    starget,          \* the resolved IPv4 target
    sres,             \* what proxy() returned
    \* ---- host_port_from_req (HostSpec) ----
    hurl,             \* the request URL
    hres              \* what host_port_from_req returned

httpVars  == <<transport, debugAssertions, process, acceptErrs, pc, req, resp,
               clientOut, upOut, upstream, client, clientSrc, upSrc, relay, result,
               attempts>>
socksVars == <<spc, senv, sconn, starget, sres>>
hostVars  == <<hurl, hres>>
vars      == <<httpVars, attempts, socksVars, hostVars>>

(***************************************************************************)
(* Bounds of the model.                                                    *)
(***************************************************************************)
MaxConns      == 2   \* connections the listener accepts
MaxAcceptErrs == 1   \* accept errors it sees
MaxRelay      == 1   \* chunks each relay direction copies
MaxDomainLen  == 2   \* bytes of a domain name drawn freely in a SOCKS5 reply
MaxHostLen    == 4   \* characters of a URL host string

Take(s, k) == SubSeq(s, 1, k)

(***************************************************************************)
(* error.rs: the value a fallible call returns.                            *)
(***************************************************************************)
NoMsg == [text |-> "", args |-> <<>>]

Ok(v)          == [res |-> "Ok", class |-> "None", msg |-> NoMsg, val |-> v]
Err(class, m)  == [res |-> "Err", class |-> class, msg |-> m, val |-> <<>>]
Panic(m)       == [res |-> "Panic", class |-> "None", msg |-> m, val |-> <<>>]
Msg(text)      == [text |-> text, args |-> <<>>]

(***************************************************************************)
(* socks5/client.rs                                                        *)
(*                                                                         *)
(* A connection to the SOCKS5 proxy is [in, pos, out]: the bytes the       *)
(* server sends before it closes, how many of them were read, and the      *)
(* bytes written to it.                                                    *)
(***************************************************************************)
BufSize == 1024

\* AsyncReadExt::read_exact: n bytes, or an I/O error (UnexpectedEof) when the
\* stream ends first; what was there has been consumed all the same.
read_exact(c, n) ==
    IF c.pos + n <= Len(c.in)
    THEN [ok |-> TRUE, buf |-> SubSeq(c.in, c.pos + 1, c.pos + n),
          c |-> [c EXCEPT !.pos = @ + n]]
    ELSE [ok |-> FALSE, buf |-> <<>>, c |-> [c EXCEPT !.pos = Len(c.in)]]

write_all(c, bytes) == [c EXCEPT !.out = @ \o bytes]

IoEof == Err("IO", Msg("failed to fill whole buffer"))

\* String::from_utf8: whether a byte string is well-formed UTF-8.
Cont(b) == b \in 128..191

RECURSIVE IsUtf8(_)
IsUtf8(s) ==
    IF \A i \in 1..Len(s) : s[i] < 128 THEN TRUE      \* all ASCII
    ELSE LET b == s[1]
             n == Len(s)
         IN  IF b < 128 THEN IsUtf8(Tail(s))
             ELSE IF b \in 194..223
                  THEN n >= 2 /\ Cont(s[2]) /\ IsUtf8(SubSeq(s, 3, n))
             ELSE IF b \in 224..239
                  THEN /\ n >= 3
                       /\ s[2] \in (IF b = 224 THEN 160..191
                                    ELSE IF b = 237 THEN 128..159 ELSE 128..191)
                       /\ Cont(s[3])
                       /\ IsUtf8(SubSeq(s, 4, n))
             ELSE IF b \in 240..244
                  THEN /\ n >= 4
                       /\ s[2] \in (IF b = 240 THEN 144..191
                                    ELSE IF b = 244 THEN 128..143 ELSE 128..191)
                       /\ Cont(s[3]) /\ Cont(s[4])
                       /\ IsUtf8(SubSeq(s, 5, n))
             ELSE FALSE

\* StatusError with 0x05 given the message of 0x04, and 0x09 taken as known.
StatusError_Shifted(status) ==
    CASE status = 5 -> Err("Server", Msg("host unreachable"))
      [] status = 9 -> Err("Server", Msg("address type not supported"))
      [] OTHER      -> Err("Server", [text |-> "unknown socks server error type",
                                      args |-> <<status>>])

\* receive, lines 49-60: the error a non-zero status byte is turned into.
StatusError(status) ==
    CASE status = 1 -> Err("Server", Msg("general socks server failure"))
      [] status = 2 -> Err("Server", Msg("connection not allowed by ruleset"))
      [] status = 3 -> Err("Server", Msg("network unreachable"))
      [] status = 4 -> Err("Server", Msg("host unreachable"))
      [] status = 5 -> Err("Server", Msg("connection refused"))
      [] status = 6 -> Err("Server", Msg("ttl expired"))
      [] status = 7 -> Err("Server", Msg("command not supported"))
      [] status = 8 -> Err("Server", Msg("address type not supported"))
      [] OTHER      -> Err("Server", [text |-> "unknown socks server error type",
                                      args |-> <<status>>])

\* receive, lines 86-91: the bound port, then Ok(()).
ReceivePort(c) ==
    LET r == read_exact(c, 2)
    IN  IF r.ok THEN [out |-> Ok(<<>>), c |-> r.c]
        ELSE [out |-> IoEof, c |-> r.c]

\* receive, lines 68-74: the domain name, whose bytes must be UTF-8 (unwrap).
ReceiveDomain(c) ==
    LET r1 == read_exact(c, 1)
    IN  IF ~r1.ok THEN [out |-> IoEof, c |-> r1.c]
        ELSE LET domain_len == r1.buf[1]
                 r2 == read_exact(r1.c, domain_len)
             IN  IF domain_len > BufSize
                 THEN [out |-> Panic(Msg("range end index out of range")), c |-> r1.c]
                 ELSE IF ~r2.ok THEN [out |-> IoEof, c |-> r2.c]
                 ELSE IF ~IsUtf8(r2.buf)
                 THEN [out |-> Panic(Msg("called Result::unwrap() on an Err value")),
                       c |-> r2.c]
                 ELSE ReceivePort(r2.c)

\* receive, lines 64-67 and 75-83: an address of a fixed number of bytes.
ReceiveFixed(c, n) ==
    LET r == read_exact(c, n)
    IN  IF r.ok THEN ReceivePort(r.c) ELSE [out |-> IoEof, c |-> r.c]

\* receive, lines 61-85: reserved byte, address type, bound address.
ReceiveAddr(c, debug) ==
    LET r == read_exact(c, 2)
    IN  IF ~r.ok THEN [out |-> IoEof, c |-> r.c]
        ELSE IF debug /\ r.buf[1] # 0
        THEN [out |-> Panic(Msg("assertion failed: 0 == buf[0]")), c |-> r.c]
        ELSE IF r.buf[2] = 1 THEN ReceiveFixed(r.c, 4)
        ELSE IF r.buf[2] = 3 THEN ReceiveDomain(r.c)
        ELSE IF r.buf[2] = 4 THEN ReceiveFixed(r.c, 16)
        ELSE [out |-> Err("Server", Msg("unsupported address type")), c |-> r.c]

\* receive: [out, c], the value returned and the connection afterwards.
receive(c, debug) ==
    LET r == read_exact(c, 2)
    IN  IF ~r.ok THEN [out |-> IoEof, c |-> r.c]
        ELSE IF debug /\ r.buf[1] # 5
        THEN [out |-> Panic(Msg("assertion failed: 5 == buf[0]")), c |-> r.c]
        ELSE IF r.buf[2] # 0 THEN [out |-> StatusError(r.buf[2]), c |-> r.c]
        ELSE ReceiveAddr(r.c, debug)

\* handshake insisting on version 5 and the offered method 0.
handshake_Validating(c) ==
    LET w == write_all(c, <<5, 1, 0>>)
        r == read_exact(w, 2)
    IN  IF ~r.ok THEN [out |-> IoEof, c |-> r.c]
        ELSE IF r.buf # <<5, 0>>
        THEN [out |-> Err("Server", Msg("no acceptable methods")), c |-> r.c]
        ELSE [out |-> Ok(<<>>), c |-> r.c]

\* handshake: offer "no authentication", read the two bytes of the answer.
handshake(c) ==
    LET w == write_all(c, <<5, 1, 0>>)
        r == read_exact(w, 2)
    IN  IF r.ok THEN [out |-> Ok(<<>>), c |-> r.c]
        ELSE [out |-> IoEof, c |-> r.c]

\* the port as u16::to_le_bytes would encode it.
to_be_bytes_LittleEndian(port) == <<port % 256, port \div 256>>

\* u16::to_be_bytes
to_be_bytes(port) == <<port \div 256, port % 256>>

\* send: the connect request for an IPv4 target.
send(c, addr) ==
    [out |-> Ok(<<>>),
     c |-> write_all(c, <<5, 1, 0, 1>> \o addr.ip \o to_be_bytes(addr.port))]

\* FirstV4 taking the first address of the resolution, whatever its family.
FirstV4_Any(addrs) == IF addrs = <<>> THEN <<>> ELSE <<addrs[1]>>

\* proxy, lines 8-12: the first IPv4 address of the resolution.
RECURSIVE FirstV4(_)
FirstV4(addrs) ==
    IF addrs = <<>> THEN <<>>
    ELSE IF addrs[1].fam = 4 THEN <<addrs[1]>>
    ELSE FirstV4(Tail(addrs))


NoConn == [open |-> FALSE, in |-> <<>>, pos |-> 0, out |-> <<>>]
Connected(env) == [open |-> TRUE, in |-> env.in, pos |-> 0, out |-> <<>>]

\* proxy as one call: resolve, connect to the proxy, handshake, send, receive.
\* env is [resolves, addrs, reachable, in]: whether the resolution succeeds and
\* with which addresses, whether the SOCKS5 proxy accepts the TCP connection,
\* and the bytes it sends before closing.  [out, c]: the value returned and
\* the connection, which the caller gets when out is Ok.
proxy(env, debug) ==
    IF ~env.resolves
    THEN [out |-> Err("IO", Msg("failed to lookup address information")), c |-> NoConn]
    ELSE IF FirstV4(env.addrs) = <<>>
    THEN [out |-> Err("BadRequest", Msg("unknown host")), c |-> NoConn]
    ELSE IF ~env.reachable
    THEN [out |-> Err("IO", Msg("connection refused")), c |-> NoConn]
    ELSE LET h == handshake(Connected(env))
             s == send(h.c, FirstV4(env.addrs)[1])
         IN  IF h.out.res # "Ok" THEN h ELSE receive(s.c, debug)

(***************************************************************************)
(* What a SOCKS5 server may send.  A reply is version, status, reserved,   *)
(* address type, bound address, port; the server may close the stream at   *)
(* any byte, and may go on sending after the reply.                        *)
(***************************************************************************)
VersionBytes == {5, 4}
StatusSample == {0, 5}
ReservedBytes == {0, 1}
AddrTypes == {1, 3, 4, 2}
DomainBytes == {97, 195, 169, 255}      \* 'a', the two bytes of U+00E9, 0xFF
LongDomain == [i \in 1..255 |-> 97]
Domains == UNION {[1..n -> DomainBytes] : n \in 0..MaxDomainLen} \cup {LongDomain}
AfterReply == <<7>>                     \* what the server sends after the reply

AddrBytes(atyp, d) ==
    CASE atyp = 1 -> <<127, 0, 0, 1>>
      [] atyp = 3 -> <<Len(d)>> \o d
      [] atyp = 4 -> [i \in 1..16 |-> 0]
      [] OTHER    -> <<>>

Reply(v, s, r, atyp, d) ==
    <<v, s, r, atyp>> \o AddrBytes(atyp, d) \o <<0, 80>> \o AfterReply

FullReplies ==
    {Reply(v, s, r, a, d) : v \in VersionBytes, s \in StatusSample,
                            r \in ReservedBytes, a \in AddrTypes, d \in Domains}

ReplyStreams ==
    UNION {{Take(f, k) : k \in 0..Len(f)} : f \in FullReplies}
    \cup {<<v, s>> : v \in VersionBytes, s \in 0..255}

V4(a, p) == [fam |-> 4, ip |-> <<10, 0, 0, a>>, port |-> p]
V6 == [fam |-> 6, ip |-> [i \in 1..16 |-> 0], port |-> 443]
Resolutions == {<<>>, <<V4(1, 443)>>, <<V6>>, <<V6, V4(1, 443)>>,
                <<V4(2, 8080), V4(1, 443)>>}

NegoStreams == {<<>>, <<5>>, <<5, 0>>, <<5, 255>>, <<4, 0>>}
GoodReply == Reply(5, 0, 0, 1, <<>>)

SocksEnvs ==
    {[resolves |-> TRUE, addrs |-> <<V4(1, 443)>>, reachable |-> TRUE,
      in |-> <<5, 0>> \o r] : r \in ReplyStreams}
    \cup
    {[resolves |-> rs, addrs |-> a, reachable |-> rc, in |-> n \o GoodReply] :
        rs \in BOOLEAN, a \in Resolutions, rc \in BOOLEAN, n \in NegoStreams}

NoAddr == [fam |-> 0, ip |-> <<>>, port |-> 0]
Pending == [res |-> "Pending", class |-> "None", msg |-> NoMsg, val |-> <<>>]

SocksIdle ==
    /\ spc = "idle"
    /\ senv = [resolves |-> FALSE, addrs |-> <<>>, reachable |-> FALSE, in |-> <<>>]
    /\ sconn = NoConn
    /\ starget = NoAddr
    /\ sres = Pending

(***************************************************************************)
(* host_port_from_req (http.rs).  A host string is a sequence of           *)
(* characters; a URL is [scheme, host, port] as Url::scheme, Url::host_str *)
(* and Url::port give them.                                                *)
(***************************************************************************)
NoHost == <<"<none>">>
NoPort == -1
U16Max == 65535

Digits == {"0", "1", "2", "3", "4", "5", "6", "7", "8", "9"}
DigitVal(ch) ==
    CASE ch = "0" -> 0 [] ch = "1" -> 1 [] ch = "2" -> 2 [] ch = "3" -> 3
      [] ch = "4" -> 4 [] ch = "5" -> 5 [] ch = "6" -> 6 [] ch = "7" -> 7
      [] ch = "8" -> 8 [] ch = "9" -> 9

\* str::split(':')
RECURSIVE split(_)
split(s) ==
    IF \A i \in 1..Len(s) : s[i] # ":" THEN <<s>>
    ELSE LET i == CHOOSE k \in 1..Len(s) :
                      s[k] = ":" /\ \A j \in 1..(k - 1) : s[j] # ":"
         IN  <<Take(s, i - 1)>> \o split(SubSeq(s, i + 1, Len(s)))

RECURSIVE Decimal(_)
Decimal(s) == IF s = <<>> THEN 0
              ELSE 10 * Decimal(Take(s, Len(s) - 1)) + DigitVal(s[Len(s)])

\* str::parse::<u16>: an optional '+', then digits, within the range of u16.
parse_u16(s) ==
    LET body == IF s # <<>> /\ s[1] = "+" THEN Tail(s) ELSE s
    IN  IF body = <<>> THEN Err("Parse", Msg("cannot parse integer from empty string"))
        ELSE IF \E i \in 1..Len(body) : body[i] \notin Digits
        THEN Err("Parse", Msg("invalid digit found in string"))
        ELSE IF Decimal(body) > U16Max
        THEN Err("Parse", Msg("number too large to fit in target type"))
        ELSE Ok(Decimal(body))

host_port_from_req(url) ==
    IF url.host = NoHost THEN Err("Http", Msg("missing host in url"))
    ELSE LET host_splits == split(url.host)
         IN  IF Len(host_splits) = 2
             THEN LET port == parse_u16(host_splits[2])
                  IN  IF port.res = "Ok" THEN Ok(<<host_splits[1], port.val>>)
                      ELSE port
             ELSE Ok(<<host_splits[1],
                       IF url.port # NoPort THEN url.port
                       ELSE IF url.scheme = "https" THEN 443 ELSE 80>>)

\* The host strings Url::host_str can give: a name or address without
\* brackets (the code also provides for one carrying ":port"), or an IPv6
\* literal in brackets.
HostChars == {"e", "8", ":", "[", "]"}
Colons(s) == Cardinality({i \in 1..Len(s) : s[i] = ":"})
IsPlainHost(s) == /\ \A i \in 1..Len(s) : s[i] \in {"e", "8", ":"}
                  /\ Colons(s) <= 1
IsIpv6Literal(s) ==
    /\ Len(s) >= 4 /\ s[1] = "[" /\ s[Len(s)] = "]"
    /\ \A i \in 2..(Len(s) - 1) : s[i] \in {"8", ":"}
    /\ Colons(s) = 2
    /\ \E i \in 2..(Len(s) - 2) : s[i] = ":" /\ s[i + 1] = ":"
HostStrings ==
    {s \in UNION {[1..n -> HostChars] : n \in 1..MaxHostLen} :
        IsPlainHost(s) \/ IsIpv6Literal(s)}
Urls == [scheme : {"http", "https"}, host : HostStrings \cup {NoHost},
         port : {NoPort, 8080}]

HostIdle == hurl = [scheme |-> "http", host |-> NoHost, port |-> NoPort] /\ hres = Pending

(***************************************************************************)
(* SocksSpec: proxy() step by step.                                        *)
(***************************************************************************)
SocksDone(out) == spc' = "done" /\ sres' = out

\* proxy, lines 7-13
SocksResolve ==
    /\ spc = "resolve"
    /\ IF ~senv.resolves
       THEN SocksDone(Err("IO", Msg("failed to lookup address information")))
            /\ UNCHANGED starget
       ELSE IF FirstV4(senv.addrs) = <<>>
       THEN SocksDone(Err("BadRequest", Msg("unknown host"))) /\ UNCHANGED starget
       ELSE spc' = "connect" /\ starget' = FirstV4(senv.addrs)[1] /\ UNCHANGED sres
    /\ UNCHANGED <<senv, sconn, httpVars, hostVars>>

\* proxy, line 14
SocksConnect ==
    /\ spc = "connect"
    /\ IF senv.reachable
       THEN spc' = "handshake" /\ sconn' = Connected(senv) /\ UNCHANGED sres
       ELSE SocksDone(Err("IO", Msg("connection refused"))) /\ UNCHANGED sconn
    /\ UNCHANGED <<senv, starget, httpVars, hostVars>>

\* proxy, line 16
SocksHandshake ==
    /\ spc = "handshake"
    /\ LET h == handshake(sconn)
       IN  /\ sconn' = h.c
           /\ IF h.out.res = "Ok" THEN spc' = "send" /\ UNCHANGED sres
              ELSE SocksDone(h.out)
    /\ UNCHANGED <<senv, starget, httpVars, hostVars>>

\* proxy, line 18
SocksSend ==
    /\ spc = "send"
    /\ sconn' = send(sconn, starget).c
    /\ spc' = "receive"
    /\ UNCHANGED <<senv, starget, sres, httpVars, hostVars>>

\* proxy, lines 20-22
SocksReceive ==
    /\ spc = "receive"
    /\ LET r == receive(sconn, debugAssertions)
       IN  sconn' = r.c /\ SocksDone(r.out)
    /\ UNCHANGED <<senv, starget, httpVars, hostVars>>

SocksNext ==
    \/ SocksResolve \/ SocksConnect \/ SocksHandshake \/ SocksSend \/ SocksReceive

(***************************************************************************)
(* HostSpec: host_port_from_req applied to a URL.                          *)
(***************************************************************************)
HostPort ==
    /\ hres = Pending
    /\ hres' = host_port_from_req(hurl)
    /\ UNCHANGED <<hurl, httpVars, socksVars>>

HostNext == HostPort

(***************************************************************************)
(* http.rs: requests, responses and what is written to the two streams.    *)
(*                                                                         *)
(* A message carries the two headers the proxy looks at, each Absent or    *)
(* its value.  What is written to a stream is a sequence of items, each    *)
(* marked with who wrote it: the handler itself, or a copy of the relay.   *)
(***************************************************************************)
Conns  == 1..MaxConns
Absent == "<absent>"
Ack200 == "HTTP/1.1 200 Connection established\r\n\r\n"

HeaderNames == {"Proxy-Connection", "Connection"}
Headers(pcv, cv) == [n \in HeaderNames |->
                        IF n = "Proxy-Connection" THEN pcv ELSE cv]

GoodUrl == [scheme |-> "http", host |-> <<"e">>, port |-> NoPort]
BadUrl  == [scheme |-> "http", host |-> NoHost, port |-> NoPort]

Requests ==
    {[method |-> "CONNECT", url |-> u, headers |-> Headers(p, Absent)] :
        u \in {GoodUrl, BadUrl}, p \in {Absent, "Keep-Alive"}}
    \cup
    {[method |-> "GET", url |-> u, headers |-> Headers(p, k)] :
        u \in {GoodUrl, BadUrl},
        p \in {Absent, "Keep-Alive", "keep-alive", "close"},
        k \in {Absent, "Keep-Alive", "close"}}

RequestSample ==
    {[method |-> "CONNECT", url |-> GoodUrl, headers |-> Headers(Absent, Absent)],
     [method |-> "GET", url |-> GoodUrl, headers |-> Headers(Absent, Absent)],
     [method |-> "GET", url |-> GoodUrl, headers |-> Headers("Keep-Alive", Absent)]}

Responses == {[status |-> 200, headers |-> Headers(Absent, k)] :
                 k \in {Absent, "keep-alive"}}

NoReq  == [method |-> "", url |-> BadUrl, headers |-> Headers(Absent, Absent)]
NoResp == [status |-> 0, headers |-> Headers(Absent, Absent)]

\* Request::header / Request::remove_header / insert_header
header(m, name)               == m.headers[name]
remove_header(m, name)        == [m EXCEPT !.headers[name] = Absent]
insert_header(m, name, value) == [m EXCEPT !.headers[name] = value]

\* keep_alive comparing without regard to case.
keep_alive_ignore_case(r) ==
    header(r, "Proxy-Connection") \in {"Keep-Alive", "keep-alive"}

\* handle_other_request, lines 89-93
keep_alive(r) ==
    IF header(r, "Proxy-Connection") # Absent
    THEN header(r, "Proxy-Connection") = "Keep-Alive"
    ELSE FALSE

\* handle_other_request, lines 109-113 and 122: the request as forwarded.
ForwardedRequest(r) ==
    insert_header(remove_header(r, "Proxy-Connection"), "Connection",
                  IF keep_alive(r) THEN "Keep-Alive" ELSE "close")

\* ForwardedResponse without the Connection header being set.
ForwardedResponse_Untouched(r) == r

\* handle_other_request, line 126: the response as forwarded.
ForwardedResponse(r) == insert_header(r, "Connection", "close")

\* Items written to a stream.
RequestItem(r, by) == [kind |-> "request", by |-> by, status |-> 0,
                       headers |-> r.headers, bytes |-> ""]
ResponseItem(r, by) == [kind |-> "response", by |-> by, status |-> r.status,
                        headers |-> r.headers, bytes |-> ""]
RawItem(b, by) == [kind |-> "raw", by |-> by, status |-> 0,
                   headers |-> Headers(Absent, Absent), bytes |-> b]

\* Response::new(StatusCode::ServiceUnavailable)
Unavailable == [status |-> 503, headers |-> Headers(Absent, Absent)]

Relayed(out) == Cardinality({i \in 1..Len(out) : out[i].by = "relay"})

\* What a client may send while the relay runs: after CONNECT, bytes of the
\* tunnelled protocol; on a forwarded connection, its next requests.
ClientChunks(r) ==
    IF r.method = "CONNECT" THEN {RawItem("tunnel bytes", "relay")}
    ELSE {RequestItem([headers |-> Headers(p, Absent)], "relay") :
             p \in {Absent, "Keep-Alive"}}
UpstreamChunks == {RawItem("upstream bytes", "relay")}

\* Transport::connect.  env is [direct, socks]: whether a direct TCP connect
\* to the target succeeds, and the environment of socks5::client::proxy.
Transport_connect(t, env, debug) ==
    IF t = "Direct"
    THEN IF env.direct THEN Ok(<<>>) ELSE Err("IO", Msg("connection refused"))
    ELSE proxy(env.socks, debug).out

\* TcpConnect where an unreachable SOCKS5 proxy makes the proxy connect to
\* the target itself.
TcpConnect_Fallback(t, env, debug) ==
    IF t = "Direct" \/ ~env.socks.reachable
    THEN [to |-> "target", opened |-> env.direct, socks |-> <<>>]
    ELSE [to |-> "proxy", opened |-> TRUE, socks |-> proxy(env.socks, debug).c.out]

\* The TCP connection a call of Transport::connect makes: to the target
\* (line 143) or to the SOCKS5 proxy (client.rs line 14, reached only with an
\* IPv4 target), whether it was established, and the SOCKS5 bytes written
\* on it.
TcpConnect(t, env, debug) ==
    IF t = "Direct"
    THEN [to |-> "target", opened |-> env.direct, socks |-> <<>>]
    ELSE IF ~env.socks.resolves \/ FirstV4(env.socks.addrs) = <<>>
    THEN [to |-> "none", opened |-> FALSE, socks |-> <<>>]
    ELSE [to |-> "proxy", opened |-> proxy(env.socks, debug).c.open,
          socks |-> proxy(env.socks, debug).c.out]

SocksEnv(addrs, reachable, in) ==
    [resolves |-> TRUE, addrs |-> addrs, reachable |-> reachable, in |-> in]
ConnectEnvs ==
    [direct : BOOLEAN,
     socks : {SocksEnv(<<V4(1, 443)>>, TRUE, <<5, 0>> \o GoodReply),
              SocksEnv(<<V4(1, 443)>>, TRUE, <<5, 0, 5, 5>>),
              SocksEnv(<<V4(1, 443)>>, TRUE, <<5, 0, 4, 0>> \o Tail(Tail(GoodReply))),
              SocksEnv(<<V4(1, 443)>>, TRUE, <<5, 0>> \o Reply(5, 0, 0, 3, <<97>>)),
              SocksEnv(<<V4(1, 443)>>, TRUE, <<5, 0>> \o Reply(5, 0, 0, 3, <<255>>)),
              SocksEnv(<<V4(1, 443)>>, TRUE, <<5, 0, 5>>),
              SocksEnv(<<V4(1, 443)>>, FALSE, <<>>),
              SocksEnv(<<V6>>, TRUE, <<>>)}]

(***************************************************************************)
(* HttpProxy::bind and the connection handlers.                            *)
(***************************************************************************)
HandlersIdle ==
    /\ pc = [c \in Conns |-> "idle"]
    /\ req = [c \in Conns |-> NoReq]
    /\ resp = [c \in Conns |-> NoResp]
    /\ clientOut = [c \in Conns |-> <<>>]
    /\ upOut = [c \in Conns |-> <<>>]
    /\ upstream = [c \in Conns |-> "none"]
    /\ client = [c \in Conns |-> "none"]
    /\ clientSrc = [c \in Conns |-> "open"]
    /\ upSrc = [c \in Conns |-> "open"]
    /\ relay = [c \in Conns |-> "none"]
    /\ result = [c \in Conns |-> Pending]
    /\ attempts = [c \in Conns |-> <<>>]

\* main.rs: HttpProxy::direct() or HttpProxy::via_socks5(..), then bind.
Init ==
    /\ transport \in {"Direct", "Socks5"}
    /\ debugAssertions \in BOOLEAN
    /\ process = "running"
    /\ acceptErrs = 0
    /\ HandlersIdle
    /\ SocksIdle
    /\ HostIdle

\* The handler future completes: handle() returns r, and the streams it
\* owns are dropped, which closes them.
Return(c, r) ==
    /\ pc' = [pc EXCEPT ![c] = "done"]
    /\ result' = [result EXCEPT ![c] = r]
    /\ client' = [client EXCEPT ![c] = "closed"]
    /\ upstream' = [upstream EXCEPT ![c] =
                       IF @ = "connected" THEN "closed" ELSE @]

\* Accept as a loop that serves one connection at a time: the next
\* connection is accepted when no handler is running.
Accept_Sequential(c) ==
    /\ process = "running"
    /\ pc[c] = "idle"
    /\ \A d \in Conns \ {c} : pc[d] \in {"idle", "done"}
    /\ pc' = [pc EXCEPT ![c] = "decode"]
    /\ client' = [client EXCEPT ![c] = "open"]
    /\ UNCHANGED <<transport, debugAssertions, process, acceptErrs, req, resp,
                   clientOut, upOut, upstream, clientSrc, upSrc, relay, result,
                   attempts, socksVars, hostVars>>

\* bind, lines 30-36: a connection is accepted and its handler starts.
Accept(c) ==
    /\ process = "running"
    /\ pc[c] = "idle"
    /\ pc' = [pc EXCEPT ![c] = "decode"]
    /\ client' = [client EXCEPT ![c] = "open"]
    /\ UNCHANGED <<transport, debugAssertions, process, acceptErrs, req, resp,
                   clientOut, upOut, upstream, clientSrc, upSrc, relay, result,
                   attempts, socksVars, hostVars>>

\* bind, lines 37-39: an accept error is logged.
AcceptError ==
    /\ process = "running"
    /\ acceptErrs < MaxAcceptErrs
    /\ acceptErrs' = acceptErrs + 1
    /\ UNCHANGED <<transport, debugAssertions, process, pc, req, resp, clientOut,
                   upOut, upstream, client, clientSrc, upSrc, relay, result,
                   attempts, socksVars, hostVars>>

\* handle, line 46: server::decode gives no request (the client closed), an
\* error (malformed framing), or a request.
Decode(c, reqs) ==
    /\ process = "running"
    /\ pc[c] = "decode"
    /\ \/ Return(c, Ok(<<>>)) /\ UNCHANGED req
       \/ Return(c, Err("Http", Msg("malformed request"))) /\ UNCHANGED req
       \/ \E r \in reqs :
             /\ req' = [req EXCEPT ![c] = r]
             /\ pc' = [pc EXCEPT ![c] = "request"]
             /\ UNCHANGED <<result, client, upstream>>
    /\ UNCHANGED <<transport, debugAssertions, process, acceptErrs, resp,
                   clientOut, upOut, clientSrc, upSrc, relay, attempts, socksVars, hostVars>>

\* handle_request, and handle_connect_request lines 62-76 or
\* handle_other_request lines 88-107, up to the outcome of Transport::connect.
\* A panic in the handler unwinds through bind, which polls it.
HandleRequest(c) ==
    /\ process = "running"
    /\ pc[c] = "request"
    /\ LET hp == host_port_from_req(req[c].url)
       IN  IF hp.res # "Ok"
           THEN Return(c, hp) /\ UNCHANGED <<process, attempts>>
           ELSE \E env \in ConnectEnvs :
                  LET out == Transport_connect(transport, env, debugAssertions)
                  IN  /\ attempts' = [attempts EXCEPT ![c] =
                             Append(@, TcpConnect(transport, env, debugAssertions))]
                      /\ IF out.res = "Panic"
                         THEN /\ process' = "panicked"
                              /\ UNCHANGED <<pc, result, client, upstream>>
                         ELSE /\ pc' = [pc EXCEPT ![c] =
                                          IF out.res = "Ok" THEN "connected"
                                          ELSE "unavailable"]
                              /\ upstream' = [upstream EXCEPT ![c] =
                                                IF out.res = "Ok" THEN "connected"
                                                ELSE "failed"]
                              /\ UNCHANGED <<process, result, client>>
    /\ UNCHANGED <<transport, debugAssertions, acceptErrs, req, resp, clientOut,
                   upOut, clientSrc, upSrc, relay, socksVars, hostVars>>

\* Write503 replaced by another try: the handler connects again.
Write503_Retry(c) ==
    /\ process = "running"
    /\ pc[c] = "unavailable"
    /\ pc' = [pc EXCEPT ![c] = "request"]
    /\ upstream' = [upstream EXCEPT ![c] = "none"]
    /\ UNCHANGED <<transport, debugAssertions, process, acceptErrs, req, resp,
                   clientOut, upOut, client, clientSrc, upSrc, relay, result,
                   attempts, socksVars, hostVars>>

\* Write503 without its return: the handler goes on as if connected.
Write503_FallThrough(c) ==
    /\ process = "running"
    /\ pc[c] = "unavailable"
    /\ clientOut' = [clientOut EXCEPT ![c] =
                       Append(@, ResponseItem(Unavailable, "handler"))]
    /\ pc' = [pc EXCEPT ![c] = "connected"]
    /\ UNCHANGED <<transport, debugAssertions, process, acceptErrs, req, resp,
                   upOut, upstream, client, clientSrc, upSrc, relay, result,
                   attempts, socksVars, hostVars>>

\* lines 69-75 and 100-106: the 503 response, then return.
Write503(c) ==
    /\ process = "running"
    /\ pc[c] = "unavailable"
    /\ \/ /\ clientOut' = [clientOut EXCEPT ![c] =
                             Append(@, ResponseItem(Unavailable, "handler"))]
          /\ Return(c, Ok(<<>>))
       \/ /\ Return(c, Err("IO", Msg("write failed")))
          /\ UNCHANGED clientOut
    /\ UNCHANGED <<transport, debugAssertions, process, acceptErrs, req, resp,
                   upOut, clientSrc, upSrc, relay, attempts, socksVars, hostVars>>

\* WriteAck without the acknowledgment: the relay starts at once.
WriteAck_RelayFirst(c) ==
    /\ process = "running"
    /\ pc[c] = "connected"
    /\ req[c].method = "CONNECT"
    /\ pc' = [pc EXCEPT ![c] = "relay"]
    /\ relay' = [relay EXCEPT ![c] = "running"]
    /\ UNCHANGED <<transport, debugAssertions, process, acceptErrs, req, resp,
                   clientOut, upOut, upstream, client, clientSrc, upSrc, result,
                   attempts, socksVars, hostVars>>

\* handle_connect_request, lines 77-84: the acknowledgment, then the relay.
WriteAck(c) ==
    /\ process = "running"
    /\ pc[c] = "connected"
    /\ req[c].method = "CONNECT"
    /\ \/ /\ clientOut' = [clientOut EXCEPT ![c] =
                             Append(@, RawItem(Ack200, "handler"))]
          /\ pc' = [pc EXCEPT ![c] = "relay"]
          /\ relay' = [relay EXCEPT ![c] = "running"]
          /\ UNCHANGED <<result, client, upstream>>
       \/ /\ Return(c, Err("IO", Msg("write failed")))
          /\ UNCHANGED <<clientOut, relay>>
    /\ UNCHANGED <<transport, debugAssertions, process, acceptErrs, req, resp,
                   upOut, clientSrc, upSrc, attempts, socksVars, hostVars>>

\* handle_other_request, lines 109-119: the first request of a keep-alive
\* connection is rewritten and sent, then the relay runs.
ForwardKeepAlive(c) ==
    /\ process = "running"
    /\ pc[c] = "connected"
    /\ req[c].method # "CONNECT"
    /\ keep_alive(req[c])
    /\ \/ /\ upOut' = [upOut EXCEPT ![c] =
                         Append(@, RequestItem(ForwardedRequest(req[c]), "handler"))]
          /\ pc' = [pc EXCEPT ![c] = "relay"]
          /\ relay' = [relay EXCEPT ![c] = "running"]
          /\ UNCHANGED <<result, client, upstream>>
       \/ /\ Return(c, Err("IO", Msg("write failed")))
          /\ UNCHANGED <<upOut, relay>>
    /\ UNCHANGED <<transport, debugAssertions, process, acceptErrs, req, resp,
                   clientOut, clientSrc, upSrc, attempts, socksVars, hostVars>>

\* handle_other_request, lines 121-125: client::connect sends the rewritten
\* request and decodes one response.
Exchange(c) ==
    /\ process = "running"
    /\ pc[c] = "connected"
    /\ req[c].method # "CONNECT"
    /\ ~keep_alive(req[c])
    /\ LET sent == [upOut EXCEPT ![c] =
                      Append(@, RequestItem(ForwardedRequest(req[c]), "handler"))]
       IN  \/ /\ Return(c, Err("IO", Msg("write failed")))
              /\ UNCHANGED <<upOut, resp>>
           \/ /\ upOut' = sent
              /\ Return(c, Err("Http", Msg("malformed response")))
              /\ UNCHANGED resp
           \/ \E r \in Responses :
                 /\ upOut' = sent
                 /\ resp' = [resp EXCEPT ![c] = r]
                 /\ pc' = [pc EXCEPT ![c] = "respond"]
                 /\ UNCHANGED <<result, client, upstream>>
    /\ UNCHANGED <<transport, debugAssertions, process, acceptErrs, req,
                   clientOut, clientSrc, upSrc, relay, attempts, socksVars, hostVars>>

\* handle_other_request, lines 126-129: the response goes to the client.
ForwardResponse(c) ==
    /\ process = "running"
    /\ pc[c] = "respond"
    /\ \/ /\ clientOut' = [clientOut EXCEPT ![c] =
                             Append(@, ResponseItem(ForwardedResponse(resp[c]), "handler"))]
          /\ Return(c, Ok(<<>>))
       \/ /\ Return(c, Err("IO", Msg("write failed")))
          /\ UNCHANGED clientOut
    /\ UNCHANGED <<transport, debugAssertions, process, acceptErrs, req, resp,
                   upOut, clientSrc, upSrc, relay, attempts, socksVars, hostVars>>

(***************************************************************************)
(* keep_alive_proxy: two copies raced by future::select.                   *)
(***************************************************************************)
\* line 157: io::copy(conn, &mut upstream_writer) moves what the client sent.
CopyLeft(c) ==
    /\ process = "running"
    /\ pc[c] = "relay"
    /\ clientSrc[c] = "open"
    /\ Relayed(upOut[c]) < MaxRelay
    /\ \E chunk \in ClientChunks(req[c]) :
          upOut' = [upOut EXCEPT ![c] = Append(@, chunk)]
    /\ UNCHANGED <<transport, debugAssertions, process, acceptErrs, pc, req, resp,
                   clientOut, upstream, client, clientSrc, upSrc, relay, result,
                   attempts, socksVars, hostVars>>

\* line 158: io::copy(upstream, &mut conn_writer) moves what upstream sent.
CopyRight(c) ==
    /\ process = "running"
    /\ pc[c] = "relay"
    /\ upSrc[c] = "open"
    /\ Relayed(clientOut[c]) < MaxRelay
    /\ \E chunk \in UpstreamChunks :
          clientOut' = [clientOut EXCEPT ![c] = Append(@, chunk)]
    /\ UNCHANGED <<transport, debugAssertions, process, acceptErrs, pc, req, resp,
                   upOut, upstream, client, clientSrc, upSrc, relay, result,
                   attempts, socksVars, hostVars>>

\* The client's sending side ends: a clean EOF, or an I/O error of the copy.
ClientCloses(c) ==
    /\ pc[c] = "relay"
    /\ clientSrc[c] = "open"
    /\ \E how \in {"eof", "err"} : clientSrc' = [clientSrc EXCEPT ![c] = how]
    /\ UNCHANGED <<transport, debugAssertions, process, acceptErrs, pc, req, resp,
                   clientOut, upOut, upstream, client, upSrc, relay, result,
                   attempts, socksVars, hostVars>>

\* The upstream's sending side ends.
UpstreamCloses(c) ==
    /\ pc[c] = "relay"
    /\ upSrc[c] = "open"
    /\ \E how \in {"eof", "err"} : upSrc' = [upSrc EXCEPT ![c] = how]
    /\ UNCHANGED <<transport, debugAssertions, process, acceptErrs, pc, req, resp,
                   clientOut, upOut, upstream, client, clientSrc, relay, result,
                   attempts, socksVars, hostVars>>

\* select waiting for both copies, as a join would.
select_both(left, right) == left /\ right

\* future::select, line 156: ready as soon as one of the two copies is.
select(left, right) == left \/ right

\* RelayFinish answering a failed copy with a 503 response to the client.
RelayFinish_Reports(c) ==
    /\ process = "running"
    /\ pc[c] = "relay"
    /\ clientSrc[c] # "open" \/ upSrc[c] # "open"
    /\ LET side == IF clientSrc[c] # "open" THEN "Left" ELSE "Right"
           how  == IF side = "Left" THEN clientSrc[c] ELSE upSrc[c]
       IN  /\ relay' = [relay EXCEPT ![c] = side]
           /\ clientOut' = [clientOut EXCEPT ![c] =
                  IF how = "err" THEN Append(@, ResponseItem(Unavailable, "handler"))
                  ELSE @]
           /\ Return(c, IF how = "err" THEN Err("IO", Msg("copy failed"))
                        ELSE Ok(<<>>))
    /\ UNCHANGED <<transport, debugAssertions, process, acceptErrs, req, resp,
                   upOut, clientSrc, upSrc, attempts, socksVars, hostVars>>

\* RelayFinish failing whenever either direction is in error.
RelayFinish_AnyError(c) ==
    /\ process = "running"
    /\ pc[c] = "relay"
    /\ clientSrc[c] # "open" \/ upSrc[c] # "open"
    /\ relay' = [relay EXCEPT ![c] =
                   IF clientSrc[c] # "open" THEN "Left" ELSE "Right"]
    /\ Return(c, IF clientSrc[c] = "err" \/ upSrc[c] = "err"
                 THEN Err("IO", Msg("copy failed")) ELSE Ok(<<>>))
    /\ UNCHANGED <<transport, debugAssertions, process, acceptErrs, req, resp,
                   clientOut, upOut, clientSrc, upSrc, attempts, socksVars,
                   hostVars>>

\* lines 156-173: the copy that ended first decides the result; select polls
\* the left one first.
RelayFinish(c) ==
    /\ process = "running"
    /\ pc[c] = "relay"
    /\ select(clientSrc[c] # "open", upSrc[c] # "open")
    /\ LET side == IF clientSrc[c] # "open" THEN "Left" ELSE "Right"
           how  == IF side = "Left" THEN clientSrc[c] ELSE upSrc[c]
       IN  /\ relay' = [relay EXCEPT ![c] = side]
           /\ Return(c, IF how = "err" THEN Err("IO", Msg("copy failed"))
                        ELSE Ok(<<>>))
    /\ UNCHANGED <<transport, debugAssertions, process, acceptErrs, req, resp,
                   clientOut, upOut, clientSrc, upSrc, attempts, socksVars, hostVars>>

\* handle(conn) for one connection, its requests drawn from reqs.
Handler(c, reqs) ==
    \/ Decode(c, reqs)
    \/ HandleRequest(c)
    \/ Write503(c)
    \/ WriteAck(c)
    \/ ForwardKeepAlive(c)
    \/ Exchange(c)
    \/ ForwardResponse(c)
    \/ CopyLeft(c)
    \/ CopyRight(c)
    \/ ClientCloses(c)
    \/ UpstreamCloses(c)
    \/ RelayFinish(c)

(***************************************************************************)
(* Spec: the listener and one connection, with every request.              *)
(* BindSpec: the listener and MaxConns concurrent connections.             *)
(***************************************************************************)
Next ==
    \/ AcceptError
    \/ Accept(1)
    \/ Handler(1, Requests)

Spec == Init /\ [][Next]_vars

\* The executor polls a handler whose relay has a finished copy.
FairSpec == Spec /\ WF_vars(RelayFinish(1))

BindNext ==
    \/ AcceptError
    \/ \E c \in Conns : Accept(c)
    \/ \E c \in Conns : Handler(c, RequestSample)

BindSpec == Init /\ [][BindNext]_vars

SocksInit ==
    /\ transport = "Socks5"
    /\ debugAssertions \in BOOLEAN
    /\ process = "running"
    /\ acceptErrs = 0
    /\ HandlersIdle
    /\ spc = "resolve"
    /\ senv \in SocksEnvs
    /\ sconn = NoConn
    /\ starget = NoAddr
    /\ sres = Pending
    /\ HostIdle

SocksSpec == SocksInit /\ [][SocksNext]_vars

HostInit ==
    /\ transport = "Direct"
    /\ debugAssertions = FALSE
    /\ process = "running"
    /\ acceptErrs = 0
    /\ HandlersIdle
    /\ SocksIdle
    /\ hurl \in Urls
    /\ hres = Pending

HostSpec == HostInit /\ [][HostNext]_vars

(***************************************************************************)
(* Properties.                                                             *)
(***************************************************************************)
AckItem == [kind |-> "raw", by |-> "handler", status |-> 0,
            headers |-> Headers(Absent, Absent),
            bytes |-> "HTTP/1.1 200 Connection established\r\n\r\n"]
Item503(i) == i.kind = "response" /\ i.status = 503 /\ i.by = "handler"
WasConnected(c) == upstream[c] \in {"connected", "closed"}
IsForward(c) == req[c].method \notin {"", "CONNECT"}

\* C1: for a CONNECT request whose upstream connect succeeded, the first
\* thing written to the client is exactly the 200 acknowledgment; it is
\* written only once the upstream is connected, and everything after it, and
\* nothing before it, is what the relay copied from upstream.
C1_AckBeforeRelay ==
    \A c \in Conns :
        /\ (\E i \in 1..Len(clientOut[c]) : clientOut[c][i] = AckItem)
              => WasConnected(c) /\ req[c].method = "CONNECT"
        /\ (req[c].method = "CONNECT" /\ WasConnected(c)) =>
              /\ clientOut[c] # <<>> => clientOut[c][1] = AckItem
              /\ \A i \in 2..Len(clientOut[c]) : clientOut[c][i].by = "relay"
              /\ relay[c] # "none" => clientOut[c] # <<>>

C1_Witness ==
    \E c \in Conns :
        /\ req[c].method = "CONNECT"
        /\ Len(clientOut[c]) >= 2
        /\ clientOut[c][1] = AckItem
        /\ clientOut[c][2].by = "relay"

\* C2: whatever the method, when Transport::connect failed the client is
\* written nothing but one 503 response, nothing is sent upstream, no relay
\* is started, and the handler can only return, which closes the connection.
C2_ConnectFailure ==
    \A c \in Conns :
        upstream[c] = "failed" =>
            /\ pc[c] \in {"unavailable", "done"}
            /\ Len(clientOut[c]) <= 1
            /\ \A i \in 1..Len(clientOut[c]) : Item503(clientOut[c][i])
            /\ upOut[c] = <<>>
            /\ relay[c] = "none"
            /\ pc[c] = "done" =>
                  /\ client[c] = "closed"
                  /\ result[c].res = "Ok" <=> Len(clientOut[c]) = 1

C2_Witness ==
    \E c \in Conns :
        /\ upstream[c] = "failed"
        /\ req[c].method = "GET"
        /\ pc[c] = "done"
        /\ Len(clientOut[c]) = 1
        /\ Item503(clientOut[c][1])

\* C3: on a forwarded (non-CONNECT) connection no request written to the
\* upstream carries a Proxy-Connection header, the first request and those
\* the client sends while the keep-alive relay is running alike.
C3_NoProxyConnectionUpstream ==
    \A c \in Conns :
        IsForward(c) =>
            \A i \in 1..Len(upOut[c]) :
                upOut[c][i].kind = "request"
                    => upOut[c][i].headers["Proxy-Connection"] = Absent

\* C4: a non-CONNECT request without Proxy-Connection: Keep-Alive, upstream
\* connected: at most one request goes upstream and one response is decoded,
\* the one response forwarded carries Connection: close, the relay never
\* runs; a handler that returns Ok has done exactly one of each, and once it
\* has returned both connections are closed.
C4_SingleExchange ==
    \A c \in Conns :
        (/\ IsForward(c)
         /\ req[c].headers["Proxy-Connection"] # "Keep-Alive"
         /\ WasConnected(c)) =>
            /\ relay[c] = "none" /\ pc[c] # "relay"
            /\ Len(upOut[c]) <= 1 /\ Len(clientOut[c]) <= 1
            /\ \A i \in 1..Len(upOut[c]) : upOut[c][i].kind = "request"
            /\ \A i \in 1..Len(clientOut[c]) :
                  /\ clientOut[c][i].kind = "response"
                  /\ clientOut[c][i].status = resp[c].status
                  /\ clientOut[c][i].headers["Connection"] = "close"
            /\ clientOut[c] # <<>> => Len(upOut[c]) = 1 /\ resp[c] # NoResp
            /\ resp[c] # NoResp => Len(upOut[c]) = 1
            /\ pc[c] = "done" =>
                  /\ client[c] = "closed" /\ upstream[c] = "closed"
                  /\ result[c].res = "Ok" =>
                        Len(upOut[c]) = 1 /\ Len(clientOut[c]) = 1

C4_Witness ==
    \E c \in Conns :
        /\ IsForward(c)
        /\ req[c].headers["Proxy-Connection"] = "close"
        /\ pc[c] = "done" /\ result[c].res = "Ok"
        /\ resp[c].headers["Connection"] = "keep-alive"
        /\ Len(clientOut[c]) = 1
        /\ clientOut[c][1].headers["Connection"] = "close"

\* C5: for a non-CONNECT request with the upstream connected, the first
\* request sent upstream carries Connection: Keep-Alive, and the relay follows
\* it with no response decoded, exactly when the client's Proxy-Connection
\* value is "Keep-Alive" to the letter; otherwise it carries Connection:
\* close and no relay runs.  The client's own Connection header never
\* survives.
C5_KeepAliveIff ==
    \A c \in Conns :
        (IsForward(c) /\ upOut[c] # <<>>) =>
            LET ka == req[c].headers["Proxy-Connection"] = "Keep-Alive"
                first == upOut[c][1]
            IN  /\ first.kind = "request" /\ first.by = "handler"
                /\ first.headers["Connection"] = (IF ka THEN "Keep-Alive" ELSE "close")
                /\ ka => relay[c] # "none" /\ resp[c] = NoResp
                /\ ~ka => relay[c] = "none"

C5_Witness ==
    \E c \in Conns :
        /\ IsForward(c)
        /\ req[c].headers["Proxy-Connection"] = "keep-alive"
        /\ req[c].headers["Connection"] = "Keep-Alive"
        /\ upOut[c] # <<>>
        /\ upOut[c][1].headers["Connection"] = "close"
        /\ resp[c] # NoResp

\* C6: no failure inside the handling of one connection, a malformed SOCKS5
\* reply included, stops the listener or the other handlers: bind is never
\* brought down by it.
C6_FailureIsolated == process = "running"

\* C7: once a relay runs and one of its copies has ended (EOF or error), the
\* relay completes and the handler ends, whatever the other direction does.
C7_RelayEndsWithFirstCopy ==
    \A c \in {1} :
        (pc[c] = "relay" /\ (clientSrc[c] # "open" \/ upSrc[c] # "open"))
            ~> (pc[c] = "done")

C7_Witness ==
    \E c \in Conns :
        /\ pc[c] = "done"
        /\ relay[c] = "Left"
        /\ upSrc[c] = "open"
        /\ Relayed(clientOut[c]) = 0

\* C8: in a reply whose version byte passes the version check (it is 5, or
\* the build has no debug assertions), each status 1..8 fails with its fixed
\* Server error (5: "connection refused") and any other non-zero status N
\* with Server error "unknown socks server error type N"; in every reply,
\* only status 0 can give a usable stream.
StatusRead == spc = "done" /\ sconn.open /\ sconn.pos >= 4
FixedMessages == <<"general socks server failure",
                   "connection not allowed by ruleset",
                   "network unreachable", "host unreachable",
                   "connection refused", "ttl expired",
                   "command not supported", "address type not supported">>

C8_StatusMapping ==
    StatusRead =>
        LET ver == senv.in[3]
            status == senv.in[4]
        IN  /\ sres.res = "Ok" => status = 0
            /\ (ver = 5 \/ ~debugAssertions) =>
                  /\ status # 0 => sres.res = "Err" /\ sres.class = "Server"
                  /\ status \in 1..8 =>
                        sres.msg = [text |-> FixedMessages[status], args |-> <<>>]
                  /\ status = 5 => sres.msg.text = "connection refused"
                  /\ status \notin 0..8 =>
                        sres.msg = [text |-> "unknown socks server error type",
                                    args |-> <<status>>]

C8_Witness ==
    /\ StatusRead
    /\ senv.in[4] = 5
    /\ sres.class = "Server"
    /\ sres.msg.text = "connection refused"

\* C9: from a reply with status 0 that is there in full, receive reads
\* version and status, reserved byte and address type, the bound address (4
\* bytes, or a length byte and that many bytes, or 16 bytes) and two port
\* bytes, then returns Ok with the next byte unread, whatever the bytes of a
\* domain name are.  (Stated for replies with version 5 and reserved 0.)
ReplyAddrLen ==
    IF senv.in[6] = 1 THEN 4
    ELSE IF senv.in[6] = 4 THEN 16
    ELSE IF Len(senv.in) >= 7 THEN 1 + senv.in[7] ELSE 1

C9_ReplyConsumedExactly ==
    (/\ spc = "done" /\ sconn.open
     /\ Len(senv.in) >= 6
     /\ senv.in[3] = 5 /\ senv.in[4] = 0 /\ senv.in[5] = 0
     /\ senv.in[6] \in {1, 3, 4}
     /\ Len(senv.in) >= 6 + ReplyAddrLen + 2) =>
        /\ sres.res = "Ok"
        /\ sconn.pos = 6 + ReplyAddrLen + 2

\* C10: the target host_port_from_req derives: for a host string of the
\* form host:port, (host, port); otherwise the URL host with the URL's port,
\* or 443 for https, or 80.
ColonAt(s) == CHOOSE i \in 1..Len(s) : s[i] = ":"
HasHostPortForm(s) ==
    /\ Colons(s) = 1
    /\ ColonAt(s) < Len(s)
    /\ \A i \in (ColonAt(s) + 1)..Len(s) : s[i] \in Digits

C10_TargetFromUrl ==
    (hres # Pending /\ hurl.host # NoHost) =>
        IF HasHostPortForm(hurl.host)
        THEN /\ hres.res = "Ok"
             /\ hres.val = <<Take(hurl.host, ColonAt(hurl.host) - 1),
                             Decimal(SubSeq(hurl.host, ColonAt(hurl.host) + 1,
                                            Len(hurl.host)))>>
        ELSE Colons(hurl.host) # 1 =>
             /\ hres.res = "Ok"
             /\ hres.val = <<hurl.host,
                             IF hurl.port # NoPort THEN hurl.port
                             ELSE IF hurl.scheme = "https" THEN 443 ELSE 80>>

\* C11: a request whose URL has no host makes the handler fail with a
\* BadRequest-class error and nothing else happens for the connection:
\* Transport::connect is not called and nothing is written to the client.
HostMissing(c) == req[c].method # "" /\ req[c].url.host = NoHost /\ pc[c] # "request"

C11_MissingHostIsBadRequest ==
    \A c \in Conns :
        HostMissing(c) =>
            /\ pc[c] = "done"
            /\ result[c].res = "Err"
            /\ result[c].class = "BadRequest"
            /\ attempts[c] = <<>> /\ upstream[c] = "none"
            /\ clientOut[c] = <<>> /\ upOut[c] = <<>>
            /\ relay[c] = "none"

\* C12: a handler calls Transport::connect at most once, on every path: not
\* before a request is decoded, once when an upstream was connected or the
\* connect failed, and never again after a failure.
C12_OneConnectAttempt ==
    \A c \in Conns :
        /\ Len(attempts[c]) <= 1
        /\ upstream[c] # "none" => Len(attempts[c]) = 1
        /\ pc[c] \in {"idle", "decode"} => attempts[c] = <<>>
        /\ (pc[c] = "done" /\ result[c].res = "Ok" /\ req[c].method # "")
              => Len(attempts[c]) = 1

C12_Witness ==
    \E c \in Conns :
        /\ pc[c] = "done"
        /\ upstream[c] = "failed"
        /\ Len(attempts[c]) = 1
        /\ clientOut[c] # <<>>

\* C13: once the 200 acknowledgment of a tunnel is on the client stream it
\* is there once, and everything else on that stream is raw bytes the relay
\* copied from upstream: no response of the proxy (no 503) is ever written,
\* also when the relay ends in an I/O error.
AckWritten(c) == \E i \in 1..Len(clientOut[c]) : clientOut[c][i] = AckItem

C13_TunnelIsRawPipe ==
    \A c \in Conns :
        AckWritten(c) =>
            /\ Cardinality({i \in 1..Len(clientOut[c]) : clientOut[c][i] = AckItem}) = 1
            /\ \A i \in 1..Len(clientOut[c]) :
                  /\ clientOut[c][i].kind = "raw"
                  /\ clientOut[c][i].status = 0
                  /\ clientOut[c][i] # AckItem =>
                        /\ clientOut[c][i].by = "relay"
                        /\ clientOut[c][i].bytes = "upstream bytes"

C13_Witness ==
    \E c \in Conns :
        /\ AckWritten(c)
        /\ pc[c] = "done"
        /\ result[c].res = "Err"
        /\ Len(clientOut[c]) = 2

\* C18: the relay, and with it the handler, returns an error exactly when
\* the copy that select found ended had ended in an I/O error; when it ended
\* in a clean EOF the result is Ok, whatever state the abandoned direction
\* is in.
C18_RelayResult ==
    \A c \in Conns :
        relay[c] \in {"Left", "Right"} =>
            LET how == IF relay[c] = "Left" THEN clientSrc[c] ELSE upSrc[c]
            IN  /\ pc[c] = "done"
                /\ how \in {"eof", "err"}
                /\ result[c].res = "Err" <=> how = "err"
                /\ result[c].res = "Ok" <=> how = "eof"
                /\ result[c].res = "Err" => result[c].class = "IO"

C18_Witness ==
    \E c \in Conns :
        /\ relay[c] = "Left"
        /\ clientSrc[c] = "eof"
        /\ upSrc[c] = "err"
        /\ result[c].res = "Ok"

\* C14: the bytes written to the SOCKS5 proxy are at every moment a prefix
\* of 05 01 00 followed by 05 01 00 01, the four octets of the first IPv4
\* address of the resolution and its port, high byte first; the connect
\* request is on the wire only after the two negotiation bytes were read;
\* and when proxy returns the stream, exactly these 13 bytes were written
\* and the whole reply (and no more) was read.
HasV4(addrs) == \E i \in 1..Len(addrs) : addrs[i].fam = 4
ResolvedV4(addrs) ==
    addrs[CHOOSE i \in 1..Len(addrs) :
              addrs[i].fam = 4 /\ \A j \in 1..(i - 1) : addrs[j].fam # 4]
Hello == <<5, 1, 0>>
ConnectRequest(a) ==
    <<5, 1, 0, 1>> \o a.ip \o <<a.port \div 256>> \o <<a.port % 256>>

C14_WireFormatAndOrder ==
    /\ sconn.out # <<>> =>
          /\ HasV4(senv.addrs)
          /\ sconn.out \in {Hello, Hello \o ConnectRequest(ResolvedV4(senv.addrs))}
    /\ Len(sconn.out) > Len(Hello) => sconn.pos >= 2
    /\ sres.res = "Ok" =>
          /\ spc = "done"
          /\ sconn.out = Hello \o ConnectRequest(ResolvedV4(senv.addrs))
          /\ Len(sconn.out) = 13
          /\ Len(senv.in) >= 6 + ReplyAddrLen + 2
          /\ sconn.pos = 6 + ReplyAddrLen + 2

C14_Witness ==
    /\ sres.res = "Ok"
    /\ sconn.out = <<5, 1, 0, 5, 1, 0, 1, 10, 0, 0, 2, 31, 144>>

\* C15: whatever the two bytes of the negotiation reply are, proxy goes on
\* to send the connect request, and it ends as it would have ended had the
\* two bytes been 05 00.
C15_NegotiationReplyIgnored ==
    (spc = "done" /\ sconn.open /\ Len(senv.in) >= 2) =>
        /\ Len(sconn.out) = 13
        /\ sres = proxy([senv EXCEPT !.in = <<5, 0>> \o SubSeq(senv.in, 3, Len(senv.in))],
                        debugAssertions).out

C15_Witness ==
    /\ spc = "done"
    /\ Len(senv.in) >= 2
    /\ senv.in[2] = 255
    /\ Len(sconn.out) = 13
    /\ sres.res = "Ok"

\* C16: when the resolution succeeds without an IPv4 address, proxy ends
\* with BadRequest "unknown host", no connection to the SOCKS5 proxy is
\* opened and nothing is written; and a connect request that is written
\* carries the first IPv4 address of the resolution, in resolution order.
C16_FirstIPv4OrUnknownHost ==
    /\ (spc \notin {"idle", "resolve"} /\ senv.resolves /\ ~HasV4(senv.addrs)) =>
          /\ spc = "done"
          /\ sres.res = "Err"
          /\ sres.class = "BadRequest"
          /\ sres.msg = Msg("unknown host")
          /\ ~sconn.open
          /\ sconn.out = <<>>
    /\ Len(sconn.out) > Len(Hello) =>
          /\ HasV4(senv.addrs)
          /\ SubSeq(sconn.out, 8, 11) = ResolvedV4(senv.addrs).ip
          /\ 256 * sconn.out[12] + sconn.out[13] = ResolvedV4(senv.addrs).port

C16_Witness ==
    /\ spc = "done"
    /\ senv.resolves
    /\ senv.reachable
    /\ senv.addrs = <<V6>>
    /\ sres.class = "BadRequest"

\* C17: when the SOCKS5 proxy closes the stream inside a step of the
\* exchange (the negotiation reply, version and status, reserved byte and
\* address type, the bound address, the port), proxy ends with an I/O
\* error and returns no stream.  (Stated for replies that pass the checks
\* made before the step: version 5, status 0, reserved 0, a supported
\* address type.)
ShortRead ==
    LET n == Len(senv.in)
    IN  \/ n < 4
        \/ /\ n < 6
           /\ senv.in[3] = 5 /\ senv.in[4] = 0
        \/ /\ n >= 6
           /\ senv.in[3] = 5 /\ senv.in[4] = 0 /\ senv.in[5] = 0
           /\ senv.in[6] \in {1, 3, 4}
           /\ n < 6 + ReplyAddrLen + 2

C17_ShortReadIsIoError ==
    (spc = "done" /\ sconn.open /\ ShortRead) =>
        /\ sres.res = "Err"
        /\ sres.class = "IO"
        /\ Len(sconn.out) <= 13

\* C19: while the process runs, a connection that arrives is accepted and
\* its handler can take its steps, in whatever state the other handlers are
\* (suspended in a relay whose two streams stay open, waiting for a request)
\* and however many accept errors were logged; the process stops running
\* only by a panic inside a handler's connect (C6), never because of an
\* accept error or a suspended handler.
Suspended(c) ==
    \/ pc[c] = "decode"
    \/ pc[c] = "relay" /\ clientSrc[c] = "open" /\ upSrc[c] = "open"

C19_AcceptNeverBlocks ==
    /\ process = "running" =>
          \A c \in Conns :
              /\ pc[c] = "idle" => ENABLED Accept(c)
              /\ pc[c] = "decode" => ENABLED Decode(c, RequestSample)
              /\ pc[c] = "request" => ENABLED HandleRequest(c)
    /\ process # "running" =>
          \E c \in Conns : pc[c] = "request" /\ Len(attempts[c]) = 1

C19_Witness ==
    \E c \in Conns : \E d \in Conns \ {c} :
        /\ process = "running"
        /\ acceptErrs >= 1
        /\ Suspended(c) /\ pc[c] = "relay"
        /\ pc[d] \in {"connected", "respond", "done"}
        /\ req[d].method # ""

\* C20: the transport never changes; with Socks5 every call of
\* Transport::connect that opens a TCP connection opens it to the SOCKS5
\* proxy, with Direct it connects to the request's target and no SOCKS5 byte
\* is written; and a handler has an upstream only through such a call.
AttemptsFollowTransport ==
    \A c \in Conns :
        /\ \A i \in 1..Len(attempts[c]) :
              LET a == attempts[c][i]
              IN  /\ transport = "Socks5" =>
                        /\ a.to \in {"proxy", "none"}
                        /\ a.opened => a.to = "proxy"
                        /\ a.to = "none" => a.socks = <<>>
                  /\ transport = "Direct" => a.to = "target" /\ a.socks = <<>>
        /\ WasConnected(c) => attempts[c] # <<>> /\ attempts[c][1].opened

C20_TransportSeam ==
    /\ []AttemptsFollowTransport
    /\ [][transport' = transport]_vars

C20_Witness ==
    \E c \in Conns :
        /\ transport = "Socks5"
        /\ upstream[c] = "connected"
        /\ attempts[c] # <<>>
        /\ attempts[c][1].to = "proxy"
        /\ Len(attempts[c][1].socks) = 13
=============================================================================
